---- MODULE Spec2Model ----
(***************************************************************************)
(* Nonogram hint dispenser (mattias-p/nono): the grid with its row and     *)
(* column line views, the three line passes CrowdedClue, ContinuousRange   *)
(* and DiscreteRange with the hints they emit, and the application of the  *)
(* hints to the grid.                                                      *)
(*                                                                         *)
(* Cells of a line are numbered from 0 as in the source; a clue is a       *)
(* sequence, so run i of the source is clue[i+1] here.  Arithmetic on      *)
(* usize is modelled with overflow checks on (the default build profile):  *)
(* a subtraction that would go below zero is a panic.                      *)
(***************************************************************************)
EXTENDS Integers, Sequences, FiniteSets, TLC

\* ---------------------------------------------------------------- bounds
MaxLen == 5        \* longest line (grid width) of the line-level runs
MaxNumber == 3     \* largest run length in a clue
MaxRuns == 2       \* most runs in a clue
MaxSetup == 3      \* direct fill/cross calls are made while fewer bits are set
MaxWidth == 3      \* widest grid of the puzzle-level runs
MaxHeight == 2     \* highest grid of the puzzle-level runs
MaxLongLen == 7    \* longest line of the single-pass runs
MaxLongSetup == 2  \* cells set up before the pass of a single-pass run

VARIABLES
    width,        \* Grid.width
    height,       \* Grid.height
    horz_clues,   \* Puzzle.horz_clues: one clue per row
    vert_clues,   \* Puzzle.vert_clues: one clue per column
    filled,       \* Grid.filled: set of bit indices that are set
    crossed,      \* Grid.crossed: set of bit indices that are set
    last_pass,    \* the pass of the last LinePassExt::apply, or "none"
    last_axis,    \* its axis
    pre_filled,   \* Grid.filled when that pass started
    pre_crossed,  \* Grid.crossed when that pass started
    hints,        \* the Vec<Hint> it returned
    bump,         \* the last bump_start call: <<start, number, result>>, or <<>>
    status,       \* "ok", or "panic" once a call has panicked
    cmp,          \* the last FilledRun comparison: <<a, b, a == b>>, or <<>>
    cur_p,        \* solver: index of the current pass
    cur_a,        \* solver: the current axis
    fail_count,   \* solver: consecutive runs without hints
    trace,        \* solver: the steps taken, <<pass, axis, emitted>> each
    pc,           \* position inside LinePassExt::apply: phase, line, hint index
    call          \* the last fill/cross of the driver's grid: x, y, transposed, index

vars == <<width, height, horz_clues, vert_clues, filled, crossed,
          last_pass, last_axis, pre_filled, pre_crossed, hints, bump, status,
          cmp, cur_p, cur_a, fail_count, trace, pc, call>>

solver_vars == <<cur_p, cur_a, fail_count, trace>>

\* no LinePassExt::apply is in progress
Idle == [phase |-> "idle", line |-> 0, k |-> 0]

Min(a, b) == IF a < b THEN a ELSE b
Max(a, b) == IF a > b THEN a ELSE b

RECURSIVE SumSeq(_)
SumSeq(s) == IF s = <<>> THEN 0 ELSE Head(s) + SumSeq(Tail(s))

\* ------------------------------------------------------------ Grid, views
\* Grid::index for a grid of width w: the bit of cell (x, y).
Index(w, x, y) == y * w + x

\* The asserts of Grid::index.
IndexOk(w, h, x, y) == x < w /\ y < h

\* HorzLine / VertLine: len() of the view.
LineLen(w, h, axis) == IF axis = "Horz" THEN w ELSE h

\* variant: the column view passes its coordinates in the order of the row
\* view
LineIndexAsRow(w, axis, j, i) == Index(w, i, j)

\* HorzLine{y: j}.get(i) reads grid cell (i, j); VertLine{x: j}.get(i)
\* reads grid cell (j, i).
LineIndex(w, axis, j, i) ==
    IF axis = "Horz" THEN Index(w, i, j) ELSE Index(w, j, i)

\* The line seen through a view: its length and the positions whose
\* filled / crossed bit is set.
View(w, h, F, C, axis, j) ==
    LET n == LineLen(w, h, axis) IN
    [len |-> n, panic |-> FALSE,
     filled |-> {i \in 0..(n - 1) : LineIndex(w, axis, j, i) \in F},
     crossed |-> {i \in 0..(n - 1) : LineIndex(w, axis, j, i) \in C}]

\* HorzLineMut / VertLineMut: the bits ls of the line seen through the
\* mutable view are the bits of the grid at the cells of that line; the
\* other cells of the bit set S keep theirs.
WriteBack(w, h, S, axis, j, ls) ==
    (S \ {LineIndex(w, axis, j, i) : i \in 0..(LineLen(w, h, axis) - 1)})
    \cup {LineIndex(w, axis, j, i) : i \in ls}

\* Grid::get through a view: the four-valued cell.
Get(l, i) ==
    IF i \in l.filled
    THEN (IF i \in l.crossed THEN "Impossible" ELSE "Filled")
    ELSE (IF i \in l.crossed THEN "Crossed" ELSE "Undecided")

\* ------------------------------------------------------- Line predicates
\* The three range scans of trait Line over the half-open range a..b.  A
\* scan returns at its first hit; reading a cell beyond the line trips the
\* asserts of Grid::index, which the ...Panics predicates detect.
RangeContainsFilled(l, a, b) ==
    \E i \in a..(b - 1) : i < l.len /\ i \in l.filled

RangeContainsUnfilled(l, a, b) ==
    \E i \in a..(b - 1) : i < l.len /\ i \notin l.filled

RangeContainsUncrossed(l, a, b) ==
    \E i \in a..(b - 1) : i < l.len /\ i \notin l.crossed

\* the scan walks off the line: every cell of a..len-1 was no hit
UnfilledPanics(l, a, b) ==
    Max(a, l.len) < b /\ \A i \in a..(l.len - 1) : i \in l.filled

UncrossedPanics(l, a, b) ==
    Max(a, l.len) < b /\ \A i \in a..(l.len - 1) : i \in l.crossed

\* --------------------------------------------------------------- LineMut
\* fill_range / cross_range: cell by cell, so the cells inside the line
\* are written before a cell beyond it panics.  A line that has panicked
\* takes no further write.
\* variant: filling a cell overwrites its state, so the crossed bit is lost
FillRangeOverwrite(l, a, b) ==
    IF l.panic THEN l
    ELSE [l EXCEPT !.filled = @ \cup (a..(Min(b, l.len) - 1)),
                   !.crossed = @ \ (a..(Min(b, l.len) - 1)),
                   !.panic = Max(a, l.len) < b]

FillRange(l, a, b) ==
    IF l.panic THEN l
    ELSE [l EXCEPT !.filled = @ \cup (a..(Min(b, l.len) - 1)),
                   !.panic = Max(a, l.len) < b]

\* variant: the range starts one cell late
CrossRangeLate(l, a, b) ==
    IF l.panic THEN l
    ELSE [l EXCEPT !.crossed = @ \cup ((a + 1)..(Min(b, l.len) - 1)),
                   !.panic = Max(a, l.len) < b]

CrossRange(l, a, b) ==
    IF l.panic THEN l
    ELSE [l EXCEPT !.crossed = @ \cup (a..(Min(b, l.len) - 1)),
                   !.panic = Max(a, l.len) < b]

FillCell(l, i) == FillRange(l, i, i + 1)
CrossCell(l, i) == CrossRange(l, i, i + 1)

\* ------------------------------------------------------------ bump_start
RECURSIVE BumpPushOntoCross(_, _, _, _)
\* variant: a crossed cell pushes the start onto itself, not past it
BumpPushOntoCross(l, number, start, focus) ==
    IF focus < start + number
    THEN BumpPushOntoCross(l, number,
                  IF focus < l.len /\ focus \in l.crossed THEN focus ELSE start,
                  focus + 1)
    ELSE focus

RECURSIVE BumpPush(_, _, _, _)
\* first loop of bump_start: crossed cells in the span push the start
BumpPush(l, number, start, focus) ==
    IF focus < start + number
    THEN BumpPush(l, number,
                  IF focus < l.len /\ focus \in l.crossed THEN focus + 1 ELSE start,
                  focus + 1)
    ELSE focus

RECURSIVE PullFilled(_, _)
\* second loop: filled cells right after the span pull it rightwards
PullFilled(l, focus) ==
    IF focus < l.len /\ focus \in l.filled THEN PullFilled(l, focus + 1) ELSE focus

\* The start bump_start begins with: one further when the cell before is
\* filled.  Reading cell start-1 beyond the line panics.
BumpStartPanics(l, start) == start > 0 /\ start - 1 >= l.len

BumpStart(l, start, number) ==
    LET start1 == IF start > 0 /\ (start - 1) \in l.filled THEN start + 1 ELSE start
    IN PullFilled(l, BumpPush(l, number, start1, start1)) - number

\* ------------------------------------------------------ Line::bump_last
RECURSIVE BumpLastPush(_, _, _, _)
\* first loop of bump_last: crossed cells in the span push the end left
BumpLastPush(l, number, last, focus) ==
    IF focus >= 0 /\ focus + number >= last + 1
    THEN BumpLastPush(l, number,
                      IF focus \in l.crossed THEN focus - 1 ELSE last,
                      focus - 1)
    ELSE focus

RECURSIVE BumpLastPull(_, _)
\* second loop: filled cells right before the span pull it leftwards
BumpLastPull(l, focus) ==
    IF focus >= 0 /\ focus \in l.filled THEN BumpLastPull(l, focus - 1) ELSE focus

\* the focus the two loops end on
BumpLastFocus(l, last, number) == BumpLastPull(l, BumpLastPush(l, number, last, last))

\* assert!(focus + number < self.len() as isize) fails, or the first loop
\* reads cell last beyond the line
BumpLastPanics(l, last, number) ==
    \/ last >= l.len
    \/ BumpLastFocus(l, last, number) + number >= l.len

\* bump_last(last, number): the end (exclusive) of the run
BumpLast(l, last, number) == BumpLastFocus(l, last, number) + number + 1

\* -------------------------------------------------- ClueExt::range_starts
RECURSIVE StartsPushOnFilled(_, _, _, _)
\* variant: filled cells push the start as crossed cells do
StartsPushOnFilled(l, number, start, focus) ==
    IF focus < Min(start + number, l.len)
    THEN StartsPushOnFilled(l, number,
                    IF focus \in l.crossed \cup l.filled THEN focus + 1 ELSE start,
                    focus + 1)
    ELSE focus

RECURSIVE StartsPush(_, _, _, _)
StartsPush(l, number, start, focus) ==
    IF focus < Min(start + number, l.len)
    THEN StartsPush(l, number,
                    IF focus \in l.crossed THEN focus + 1 ELSE start,
                    focus + 1)
    ELSE focus

RECURSIVE RangeStartsNoGap(_, _, _, _)
\* variant: the next run is searched from the cell right after the run
RangeStartsNoGap(clue, l, i, start) ==
    IF i > Len(clue) THEN <<>>
    ELSE LET focus == PullFilled(l, StartsPush(l, clue[i], start, start))
         IN <<focus - clue[i]>> \o RangeStartsNoGap(clue, l, i + 1, focus)

RECURSIVE RangeStartsFrom(_, _, _, _)
\* the loop over the runs: push by crosses, pull over fills, record
\* focus - number and go on from focus + 1
RangeStartsFrom(clue, l, i, start) ==
    IF i > Len(clue) THEN <<>>
    ELSE LET focus == PullFilled(l, StartsPush(l, clue[i], start, start))
         IN <<focus - clue[i]>> \o RangeStartsFrom(clue, l, i + 1, focus + 1)

\* range_starts[i] of the source is RangeStarts(clue, l)[i+1]; an entry
\* below zero stands for the usize underflow of focus - number.
RangeStarts(clue, l) == RangeStartsFrom(clue, l, 1, 0)

\* ---------------------------------------------------- ClueExt::range_ends
RECURSIVE EndsPush(_, _, _, _)
\* first loop of range_ends: crossed cells in the span push the end left
EndsPush(l, number, last, focus) ==
    IF focus >= 0 /\ focus + number >= last + 1
    THEN EndsPush(l, number,
                  IF focus \in l.crossed THEN focus - 1 ELSE last,
                  focus - 1)
    ELSE focus

\* variant: filled cells before the span do not pull the end along
PullFilledBackNone(l, focus) == focus

RECURSIVE PullFilledBack(_, _)
\* second loop of range_ends: the run is pulled over the filled cells
PullFilledBack(l, focus) ==
    IF focus >= 0 /\ focus \in l.filled THEN PullFilledBack(l, focus - 1) ELSE focus

RECURSIVE RangeEndsFrom(_, _, _, _)
\* the vector in push order: the last run first
RangeEndsFrom(clue, l, i, last) ==
    IF i < 1 THEN <<>>
    ELSE LET focus == PullFilledBack(l, EndsPush(l, clue[i], last, last))
         IN <<focus + 1 + clue[i]>> \o RangeEndsFrom(clue, l, i - 1, focus - 1)

RangeEnds(clue, l) == RangeEndsFrom(clue, l, Len(clue), l.len - 1)

Reverse(s) == [i \in 1..Len(s) |-> s[Len(s) + 1 - i]]

\* ------------------------------------------------------ LineHint::check
\* check of the ten hint variants (ContinuousRangeHint, CrowdedClue,
\* FilledRun, CrossedRun): would applying the hint change a cell?
Check(h, l) ==
    CASE h.kind = "Unreachable" ->
            RangeContainsUncrossed(l, 0, h.reachable_start)
            \/ RangeContainsUncrossed(l, h.reachable_end, l.len)
      [] h.kind = "Kernel" ->
            RangeContainsUnfilled(l, h.kernel_start, h.kernel_end)
      [] h.kind = "Termination" ->
            (h.range_start > 0 /\ (h.range_start - 1) \notin l.crossed)
            \/ (h.range_end < l.len /\ h.range_end \notin l.crossed)
      [] h.kind = "TurfNearSingleton" ->
            RangeContainsUnfilled(l, h.found_start, h.kernel_start)
            \/ RangeContainsUncrossed(l, h.reachable_end, h.turf_end)
      [] h.kind = "TurfFarSingleton" ->
            RangeContainsUncrossed(l, h.turf_start, h.reachable_start)
            \/ RangeContainsUnfilled(l, h.kernel_end, h.found_end)
      [] h.kind = "TurfPair" ->
            RangeContainsUncrossed(l, h.turf_start, h.reachable_start)
            \/ RangeContainsUnfilled(l, h.found_start + 1, h.found_end - 1)
            \/ RangeContainsUncrossed(l, h.reachable_end, h.turf_end)
      [] h.kind = "TurfSingleton" ->
            RangeContainsUncrossed(l, h.turf_start, h.reachable_start)
            \/ RangeContainsUncrossed(l, h.reachable_end, h.turf_end)
      [] h.kind = "CrowdedClue" ->
            RangeContainsUnfilled(l, h.kernel_start, h.kernel_end)
      [] h.kind = "FilledRun" ->
            RangeContainsUnfilled(l, h.start, h.end)
      [] h.kind = "CrossedRun" ->
            RangeContainsUncrossed(l, h.start, h.end)

\* check reads a cell beyond the line.  Only the kernel ranges of the
\* passes can reach beyond it; the other ranges are bounded by range_ends,
\* which range_ends asserts to be at most len.
CheckPanics(h, l) ==
    CASE h.kind = "Kernel" -> UnfilledPanics(l, h.kernel_start, h.kernel_end)
      [] h.kind = "CrowdedClue" -> UnfilledPanics(l, h.kernel_start, h.kernel_end)
      [] h.kind = "FilledRun" -> UnfilledPanics(l, h.start, h.end)
      [] h.kind = "CrossedRun" -> UncrossedPanics(l, h.start, h.end)
      [] h.kind = "Termination" -> h.range_start > l.len
      [] OTHER -> FALSE

\* ------------------------------------------------------ LineHint::apply
ApplyHint(h, l) ==
    CASE h.kind = "Unreachable" ->
            CrossRange(CrossRange(l, 0, h.reachable_start), h.reachable_end, l.len)
      [] h.kind = "Kernel" ->
            FillRange(l, h.kernel_start, h.kernel_end)
      [] h.kind = "Termination" ->
            LET l1 == IF h.range_start > 0 THEN CrossCell(l, h.range_start - 1) ELSE l
            IN IF h.range_end < l.len THEN CrossCell(l1, h.range_end) ELSE l1
      [] h.kind = "TurfNearSingleton" ->
            CrossRange(FillRange(l, h.found_start, h.kernel_start),
                       h.reachable_end, h.turf_end)
      [] h.kind = "TurfFarSingleton" ->
            FillRange(CrossRange(l, h.turf_start, h.reachable_start),
                      h.kernel_end, h.found_end)
      [] h.kind = "TurfPair" ->
            CrossRange(FillRange(CrossRange(l, h.turf_start, h.reachable_start),
                                 h.found_start + 1, h.found_end - 1),
                       h.reachable_end, h.turf_end)
      [] h.kind = "TurfSingleton" ->
            CrossRange(CrossRange(l, h.turf_start, h.reachable_start),
                       h.reachable_end, h.turf_end)
      [] h.kind = "CrowdedClue" ->
            FillRange(l, h.kernel_start, h.kernel_end)
      [] h.kind = "FilledRun" ->
            FillRange(l, h.start, h.end)
      [] h.kind = "CrossedRun" ->
            CrossRange(l, h.start, h.end)

\* variant: the hint is pushed unchecked
FreshAlways(h, l) == <<h>>

\* push the hint when its check holds
Fresh(h, l) == IF Check(h, l) THEN <<h>> ELSE <<>>

RECURSIVE ConcatMap(_, _, _)
\* f[1] \o f[2] \o ... \o f[n] from index i on
ConcatMap(f, i, n) == IF i > n THEN <<>> ELSE f[i] \o ConcatMap(f, i + 1, n)

\* --------------------------------------------------- CrowdedCluePass::run
\* sum + clue.len() - 1 underflows for the empty clue, and
\* line.len() - (...) underflows when the clue does not fit the line.
CrowdedPanics(clue, l) ==
    \/ SumSeq(clue) + Len(clue) < 1
    \/ l.len < SumSeq(clue) + Len(clue) - 1

\* variant: the offset of a run leaves out the gaps before it
CrowdedHintsNoGap(clue, l) ==
    LET freedom == l.len - (SumSeq(clue) + Len(clue) - 1)
        x0(i) == SumSeq(SubSeq(clue, 1, i - 1))
        one == [i \in 1..Len(clue) |->
                  IF clue[i] > freedom
                  THEN Fresh([kind |-> "CrowdedClue",
                              kernel_start |-> x0(i) + freedom,
                              kernel_end |-> x0(i) + clue[i]], l)
                  ELSE <<>>]
    IN ConcatMap(one, 1, Len(clue))

CrowdedHints(clue, l) ==
    LET freedom == l.len - (SumSeq(clue) + Len(clue) - 1)
        x0(i) == SumSeq(SubSeq(clue, 1, i - 1)) + (i - 1)
        one == [i \in 1..Len(clue) |->
                  IF clue[i] > freedom
                  THEN Fresh([kind |-> "CrowdedClue",
                              kernel_start |-> x0(i) + freedom,
                              kernel_end |-> x0(i) + clue[i]], l)
                  ELSE <<>>]
    IN ConcatMap(one, 1, Len(clue))

CrowdedClueRun(clue, l) ==
    IF CrowdedPanics(clue, l) THEN [panic |-> TRUE, hints |-> <<>>]
    ELSE [panic |-> FALSE, hints |-> CrowdedHints(clue, l)]

\* ----------------------------------------------- ContinuousRangePass::run
\* turf_ends / turf_starts of run i (from 1), with re the range ends in
\* forward order.
\* variant: the turf is not cut at the next run's range start
TurfEndUncut(rs, re, len, i) == re[i]

TurfEnd(rs, re, len, i) ==
    Min(re[i], IF i < Len(rs) THEN rs[i + 1] - 1 ELSE len + 1)

TurfStart(rs, re, i) ==
    Max(IF i = 1 THEN 0 ELSE re[i - 1] + 1, rs[i])

\* (a..b).find(|x| line.is_filled(*x)) and its .rev() form, for ranges
\* inside the line; -1 stands for None.
FindFilled(l, a, b) ==
    LET S == {x \in a..(b - 1) : x \in l.filled} IN
    IF S = {} THEN -1 ELSE CHOOSE x \in S : \A y \in S : x <= y

FindFilledRev(l, a, b) ==
    LET S == {x \in a..(b - 1) : x \in l.filled} IN
    IF S = {} THEN -1 ELSE CHOOSE x \in S : \A y \in S : x >= y

\* variant: the kernel starts one cell early
KernelStartEarly(range_end, number) == range_end - number - 1

\* let kernel_start = range_end - number
KernelStart(range_end, number) == range_end - number

\* variant: the kernel ends one cell late
KernelEndLate(range_start, number) == range_start + number + 1

\* let kernel_end = range_start + number
KernelEnd(range_start, number) == range_start + number

\* the hints of one iteration of the loop over the runs
RunHints(clue, l, rs, re, i) ==
    LET number == clue[i]
        range_start == rs[i]
        range_end == re[i]
        turf_start == TurfStart(rs, re, i)
        turf_end == TurfEnd(rs, re, l.len, i)
    IN
    IF range_start + 2 * number > range_end
    THEN LET kernel_start == KernelStart(range_end, number)
             kernel_end == KernelEnd(range_start, number)
             kernel == Fresh([kind |-> "Kernel", kernel_start |-> kernel_start,
                              kernel_end |-> kernel_end], l)
         IN
         IF kernel_start = range_start /\ kernel_end = range_end
         THEN kernel \o Fresh([kind |-> "Termination", range_start |-> range_start,
                               range_end |-> range_end], l)
         ELSE LET found_start == FindFilled(l, turf_start, kernel_start)
                  found_end == FindFilledRev(l, kernel_end, turf_end)
              IN kernel
                 \o (IF found_start >= 0
                     THEN Fresh([kind |-> "TurfNearSingleton",
                                 found_start |-> found_start,
                                 kernel_start |-> kernel_start,
                                 reachable_end |-> found_start + number,
                                 turf_end |-> turf_end], l)
                     ELSE <<>>)
                 \o (IF found_end >= 0
                     THEN Fresh([kind |-> "TurfFarSingleton",
                                 turf_start |-> turf_start,
                                 reachable_start |-> found_end - number,
                                 kernel_end |-> kernel_end,
                                 found_end |-> found_end], l)
                     ELSE <<>>)
    ELSE LET found_start == FindFilled(l, turf_start, turf_end)
             reachable_end == found_start + number
             found_end == FindFilledRev(l, found_start + 1, turf_end)
         IN
         IF found_start < 0 THEN <<>>
         ELSE IF found_end >= 0
         THEN Fresh([kind |-> "TurfPair",
                     turf_start |-> turf_start,
                     reachable_start |-> Max(found_end - number, 0),
                     found_start |-> found_start,
                     found_end |-> found_end,
                     reachable_end |-> reachable_end,
                     turf_end |-> turf_end], l)
         ELSE Fresh([kind |-> "TurfSingleton",
                     turf_start |-> turf_start,
                     reachable_start |-> Max(found_start - number, 0),
                     reachable_end |-> reachable_end,
                     turf_end |-> turf_end], l)

\* The panics of run: range_starts underflows (focus - number), the assert
\* of range_ends fails, range_starts[0] indexes an empty vector, the
\* turf_ends closure underflows (*e - 1), kernel_start underflows
\* (range_end - number), or the kernel check reads beyond the line.
ContinuousPanics(clue, l, rs, re) ==
       \/ \E i \in 1..Len(clue) : rs[i] < 0
       \/ \E i \in 1..Len(clue) : re[i] > l.len
       \/ clue = <<>>
       \/ \E i \in 2..Len(clue) : rs[i] = 0
       \/ \E i \in 1..Len(clue) :
             /\ rs[i] + 2 * clue[i] > re[i]
             /\ \/ re[i] < clue[i]
                \/ UnfilledPanics(l, KernelStart(re[i], clue[i]), KernelEnd(rs[i], clue[i]))

\* variant: the unreachable cells are reported after the loop over the runs
ContinuousHintsUnreachableLast(clue, l, rs, re) ==
    LET one == [i \in 1..Len(clue) |-> RunHints(clue, l, rs, re, i)]
    IN ConcatMap(one, 1, Len(clue))
       \o Fresh([kind |-> "Unreachable", reachable_start |-> rs[1],
                 reachable_end |-> re[Len(clue)]], l)

ContinuousHints(clue, l, rs, re) ==
    LET one == [i \in 1..Len(clue) |-> RunHints(clue, l, rs, re, i)]
    IN Fresh([kind |-> "Unreachable", reachable_start |-> rs[1],
              reachable_end |-> re[Len(clue)]], l)
       \o ConcatMap(one, 1, Len(clue))

ContinuousRangeRun(clue, l) ==
    LET rs == RangeStarts(clue, l)
        re == Reverse(RangeEnds(clue, l))
    IN IF ContinuousPanics(clue, l, rs, re) THEN [panic |-> TRUE, hints |-> <<>>]
       ELSE [panic |-> FALSE, hints |-> ContinuousHints(clue, l, rs, re)]

\* ------------------------------------------------- DiscreteRange: State
\* enum State { Empty(n), Filled(m, n), End } and State::cell.
StateStart == [tag |-> "Empty", m |-> 0, n |-> 0]
StateEnd == [tag |-> "End", m |-> 0, n |-> 0]

StateCell(st, cell) ==
    CASE st.tag = "Empty" /\ cell = "Crossed" -> [tag |-> "Empty", m |-> 0, n |-> 0]
      [] st.tag = "Empty" /\ cell = "Undecided" -> [tag |-> "Empty", m |-> 0, n |-> st.n + 1]
      [] st.tag = "Empty" /\ cell = "Filled" -> [tag |-> "Filled", m |-> 1, n |-> st.n + 1]
      [] st.tag = "Filled" /\ cell \in {"Undecided", "Filled"} ->
            [tag |-> "Filled", m |-> st.m + 1, n |-> st.n + 1]
      [] OTHER -> StateEnd

\* ------------------------------------------------------------------ Iter
\* One step of the for loop of Iter::next: the state after the cell at
\* focus, a Filled state longer than the run ending the iteration.
IterState(l, number, st, focus) ==
    LET st1 == StateCell(st, Get(l, focus))
    IN IF st1.tag = "Filled" /\ st1.m > number THEN StateEnd ELSE st1

\* variant: a run is also placed right before a filled cell
IterEmitTouching(l, number, st, focus) ==
    /\ st.tag \in {"Filled", "Empty"}
    /\ st.n >= number

IterEmit(l, number, st, focus) ==
    /\ st.tag \in {"Filled", "Empty"}
    /\ st.n >= number
    /\ (focus + 1 >= l.len \/ (focus + 1) \notin l.filled)

RECURSIVE IterFrom(_, _, _, _)
\* all the items the iterator yields from focus on: the state is kept
\* across the calls of next, so they come from one scan of the line
IterFrom(l, number, st, focus) ==
    IF focus >= l.len THEN <<>>
    ELSE LET st1 == IterState(l, number, st, focus)
         IN (IF IterEmit(l, number, st1, focus) THEN <<focus + 1 - number>> ELSE <<>>)
            \o IterFrom(l, number, st1, focus + 1)

\* Iter::new(line, number, start) collected
Iter(l, number, start) == IterFrom(l, number, StateStart, start)

\* ---------------------------------------------------- Possibilities::solve
RECURSIVE Solve(_, _, _, _, _)
RECURSIVE SolveEach(_, _, _, _, _, _)
\* the position vectors handed to Possibilities::positions, in call order
Solve(l, clue, depth, start, positions) ==
    IF depth <= Len(clue)
    THEN SolveEach(l, clue, depth, Iter(l, clue[depth], start), 1, positions)
    ELSE IF ~RangeContainsFilled(l, start, l.len) THEN <<positions>> ELSE <<>>

SolveEach(l, clue, depth, starts, k, positions) ==
    IF k > Len(starts) THEN <<>>
    ELSE Solve(l, clue, depth + 1, starts[k] + clue[depth] + 1,
               Append(positions, starts[k]))
         \o SolveEach(l, clue, depth, starts, k + 1, positions)

\* ------------------------------------------------------- Possibilities
\* variant: the crossed mask starts all zeros
PossNewNoCrossed(line_len) ==
    [filled |-> 0..(line_len - 1), crossed |-> {}, cell_numbers |-> {}]

\* Possibilities::new: both masks all ones, no cell numbers
PossNew(line_len) ==
    [filled |-> 0..(line_len - 1), crossed |-> 0..(line_len - 1), cell_numbers |-> {}]

RECURSIVE ClearGapsOpenEnd(_, _, _, _, _, _)
\* variant: the cells after the last run are not cleared
ClearGapsOpenEnd(mask, positions, clue, i, old_end, line_len) ==
    IF i > Len(clue) THEN mask
    ELSE ClearGapsOpenEnd(mask \ (old_end..(positions[i] - 1)), positions, clue,
                          i + 1, positions[i] + clue[i], line_len)

RECURSIVE ClearGaps(_, _, _, _, _, _)
\* the loop of positions over the filled mask: the cells old_end..start
\* before each run are cleared, and old_end..len after the last run
ClearGaps(mask, positions, clue, i, old_end, line_len) ==
    IF i > Len(clue) THEN mask \ (old_end..(line_len - 1))
    ELSE ClearGaps(mask \ (old_end..(positions[i] - 1)), positions, clue,
                   i + 1, positions[i] + clue[i], line_len)

\* variant: the last cell of a run is left out
SpanShort(positions, clue, i) == positions[i]..(positions[i] + clue[i] - 2)

\* the cells start..start+number of run i (from 1) of a placement
Span(positions, clue, i) == positions[i]..(positions[i] + clue[i] - 1)

\* Possibilities::positions: one placement narrows the masks.  The cells
\* of each run leave crossed and get the run's index in cell_numbers.
Positions(poss, positions, clue, line_len) ==
    [filled |-> ClearGaps(poss.filled, positions, clue, 1, 0, line_len),
     crossed |-> poss.crossed \ UNION {Span(positions, clue, i) : i \in 1..Len(clue)},
     cell_numbers |-> poss.cell_numbers \cup
        UNION {{j * Len(clue) + (i - 1) : j \in Span(positions, clue, i)} :
               i \in 1..Len(clue)}]

RECURSIVE PossFold(_, _, _, _, _)
PossFold(poss, placements, k, clue, line_len) ==
    IF k > Len(placements) THEN poss
    ELSE PossFold(Positions(poss, placements[k], clue, line_len),
                  placements, k + 1, clue, line_len)

\* possibilities after solve(line, clue, 0, 0, &mut vec![])
Possibilities(clue, l) ==
    PossFold(PossNew(l.len), Solve(l, clue, 1, 0, <<>>), 1, clue, l.len)

\* ---------------------------------------------------- Possibilities::hints
RECURSIVE SkipWhile(_, _, _)
\* while i < n && i in S: i += 1
SkipWhile(S, i, n) == IF i < n /\ i \in S THEN SkipWhile(S, i + 1, n) ELSE i

RECURSIVE SkipFree(_, _, _)
\* while i < n && !filled[i] && !crossed[i]: i += 1
SkipFree(poss, i, n) ==
    IF i < n /\ i \notin poss.filled /\ i \notin poss.crossed
    THEN SkipFree(poss, i + 1, n) ELSE i

RECURSIVE PossHintsFrom(_, _, _, _)
PossHintsFrom(poss, l, clue, i0) ==
    LET start == SkipFree(poss, i0, l.len) IN
    IF i0 >= l.len \/ start >= l.len THEN <<>>
    ELSE IF start \in poss.filled
    THEN LET i == SkipWhile(poss.filled, start, l.len)
             numbers == {j \in 0..(Len(clue) - 1) :
                            (start * Len(clue) + j) \in poss.cell_numbers}
         IN Fresh([kind |-> "FilledRun", start |-> start, end |-> i,
                   numbers |-> numbers], l)
            \o PossHintsFrom(poss, l, clue, i)
    ELSE LET i == SkipWhile(poss.crossed, start, l.len)
         IN Fresh([kind |-> "CrossedRun", start |-> start, end |-> i], l)
            \o PossHintsFrom(poss, l, clue, i)

\* --------------------------------------------------- DiscreteRangePass::run
\* variant: a line without runs is left alone
DiscreteRangeRunSkipEmpty(clue, l) ==
    [panic |-> FALSE,
     hints |-> IF clue = <<>> THEN <<>>
               ELSE PossHintsFrom(Possibilities(clue, l), l, clue, 0)]

DiscreteRangeRun(clue, l) ==
    [panic |-> FALSE, hints |-> PossHintsFrom(Possibilities(clue, l), l, clue, 0)]

\* ------------------------------------------------------------ LinePass
\* ------------------------------------------- impl PartialEq for FilledRun
\* a == b: the intersection of the two sets of run indices has as many
\* elements as a.numbers
FilledRunEq(a, b) ==
    /\ a.start = b.start
    /\ a.end = b.end
    /\ Cardinality(a.numbers \cap b.numbers) = Cardinality(a.numbers)

Passes == {"CrowdedClue", "ContinuousRange", "DiscreteRange"}

\* LinePass::run of the three passes: the hints, or a panic
PassRun(pass, clue, l) ==
    CASE pass = "CrowdedClue" -> CrowdedClueRun(clue, l)
      [] pass = "ContinuousRange" -> ContinuousRangeRun(clue, l)
      [] pass = "DiscreteRange" -> DiscreteRangeRun(clue, l)

\* ------------------------------------------------ LinePassExt, Hint::apply
AxisClues(hc, vc, axis) == IF axis = "Horz" THEN hc ELSE vc

\* run_horz / run_vert: the hints of all the lines of the axis, by
\* ascending line, each wrapped as Hint{axis, line, line_hint}
RunPuzzle(pass, axis, w, h, hc, vc, F, C) ==
    LET clues == AxisClues(hc, vc, axis)
        res == [j \in 1..Len(clues) |->
                  PassRun(pass, clues[j], View(w, h, F, C, axis, j - 1))]
        wrap(j) == [k \in 1..Len(res[j].hints) |->
                      [axis |-> axis, line |-> j - 1, line_hint |-> res[j].hints[k]]]
        wrapped == [j \in 1..Len(clues) |-> wrap(j)]
    IN IF \E j \in 1..Len(clues) : res[j].panic
       THEN [panic |-> TRUE, hints |-> <<>>]
       ELSE [panic |-> FALSE, hints |-> ConcatMap(wrapped, 1, Len(clues))]

\* Hint::apply: the line hint applied through the mutable view of its
\* line writes through to the two bit sets of the grid
HintApply(hint, w, h, g) ==
    IF g.panic THEN g
    ELSE LET l == ApplyHint(hint.line_hint, View(w, h, g.filled, g.crossed, hint.axis, hint.line))
         IN [filled |-> WriteBack(w, h, g.filled, hint.axis, hint.line, l.filled),
             crossed |-> WriteBack(w, h, g.crossed, hint.axis, hint.line, l.crossed),
             panic |-> l.panic]

RECURSIVE ApplyAll(_, _, _, _, _)
\* for hint in &hints { hint.apply(puzzle) }
ApplyAll(hs, k, w, h, g) ==
    IF k > Len(hs) THEN g ELSE ApplyAll(hs, k + 1, w, h, HintApply(hs[k], w, h, g))

\* ---------------------------------------------------------------- actions
\* line j of an axis as the last pass found it, and as it is now
PreLine(axis, j) == View(width, height, pre_filled, pre_crossed, axis, j)
CurLine(axis, j) == View(width, height, filled, crossed, axis, j)
ClueAt(axis, j) == AxisClues(horz_clues, vert_clues, axis)[j + 1]

Clues == UNION {[1..k -> 1..MaxNumber] : k \in 0..MaxRuns}

NoHistory ==
    /\ last_pass' = "none"
    /\ last_axis' = "Horz"
    /\ pre_filled' = {}
    /\ pre_crossed' = {}
    /\ hints' = <<>>
    /\ bump' = <<>>
    /\ cmp' = <<>>
    /\ call' = <<>>
    /\ UNCHANGED pc

\* the solver before its first step
SolverStart ==
    /\ cur_p = 0
    /\ cur_a = "Horz"
    /\ fail_count = 0
    /\ trace = <<>>

\* Grid::new(width, 1) with the line view horz_mut(0), and the clue the
\* passes are run with on that line
Init ==
    /\ width \in 1..MaxLen
    /\ height = 1
    /\ horz_clues \in {<<c>> : c \in Clues}
    /\ vert_clues = [x \in 1..width |-> <<>>]
    /\ filled = {}
    /\ crossed = {}
    /\ last_pass = "none"
    /\ last_axis = "Horz"
    /\ pre_filled = {}
    /\ pre_crossed = {}
    /\ hints = <<>>
    /\ bump = <<>>
    /\ status = "ok"
    /\ cmp = <<>>
    /\ call = <<>>
    /\ pc = Idle
    /\ SolverStart

SetupOpen == Cardinality(filled) + Cardinality(crossed) < MaxSetup

\* a call on horz_mut(0) that leaves the line as l
LineCall(l) ==
    /\ status = "ok" /\ SetupOpen
    /\ filled' = WriteBack(width, height, filled, "Horz", 0, l.filled)
    /\ crossed' = WriteBack(width, height, crossed, "Horz", 0, l.crossed)
    /\ status' = IF l.panic THEN "panic" ELSE "ok"
    /\ NoHistory
    /\ UNCHANGED <<width, height, horz_clues, vert_clues>>
    /\ UNCHANGED solver_vars

\* LineMut::fill(i) on horz_mut(0)
Fill(i) == LineCall(FillCell(CurLine("Horz", 0), i))

\* LineMut::cross(i) on horz_mut(0)
Cross(i) == LineCall(CrossCell(CurLine("Horz", 0), i))

\* LineMut::fill_range(a..b) on horz_mut(0)
FillRangeCall(a, b) == LineCall(FillRange(CurLine("Horz", 0), a, b))

\* LineMut::cross_range(a..b) on horz_mut(0)
CrossRangeCall(a, b) == LineCall(CrossRange(CurLine("Horz", 0), a, b))

\* LinePassExt::apply(axis, puzzle): run the pass on every line of the
\* axis, then apply the hints in list order, and return them
ApplyPass(pass, axis) ==
    /\ status = "ok"
    /\ LET r == RunPuzzle(pass, axis, width, height, horz_clues, vert_clues, filled, crossed)
           g == ApplyAll(r.hints, 1, width, height,
                         [filled |-> filled, crossed |-> crossed, panic |-> r.panic])
       IN /\ filled' = g.filled
          /\ crossed' = g.crossed
          /\ hints' = r.hints
          /\ status' = IF g.panic THEN "panic" ELSE "ok"
    /\ last_pass' = pass
    /\ last_axis' = axis
    /\ pre_filled' = filled
    /\ pre_crossed' = crossed
    /\ bump' = <<>>
    /\ cmp' = <<>>
    /\ call' = <<>>
    /\ UNCHANGED pc
    /\ UNCHANGED <<width, height, horz_clues, vert_clues>>

\* Line::bump_start(start, number) on horz_mut(0); the result is kept
BumpStartCall(start, number) ==
    /\ status = "ok"
    /\ LET l == View(width, height, filled, crossed, "Horz", 0)
       IN IF BumpStartPanics(l, start)
          THEN bump' = <<>> /\ status' = "panic"
          ELSE bump' = <<start, number, BumpStart(l, start, number)>> /\ status' = "ok"
    /\ last_pass' = "none"
    /\ last_axis' = "Horz"
    /\ pre_filled' = {}
    /\ pre_crossed' = {}
    /\ hints' = <<>>
    /\ cmp' = <<>>
    /\ call' = <<>>
    /\ UNCHANGED pc
    /\ UNCHANGED <<width, height, horz_clues, vert_clues, filled, crossed>>
    /\ UNCHANGED solver_vars

Next ==
    \/ \E i \in 0..(width - 1) : Fill(i)
    \/ \E i \in 0..(width - 1) : Cross(i)
    \/ \E a \in 0..width : \E b \in a..width : FillRangeCall(a, b)
    \/ \E a \in 0..width : \E b \in a..width : CrossRangeCall(a, b)
    \/ \E pass \in Passes : ApplyPass(pass, "Horz") /\ UNCHANGED solver_vars

Spec == Init /\ [][Next]_vars

\* ---------------------------------------------- bump_start on a line
\* a line of an empty grid, set up by fill and cross, on which bump_start
\* is called
InitBump ==
    /\ Init
    /\ horz_clues = <<(<<>>)>>

NextBump ==
    \/ \E i \in 0..(width - 1) : Fill(i)
    \/ \E i \in 0..(width - 1) : Cross(i)
    \/ \E start \in 0..width : \E number \in 1..MaxNumber : BumpStartCall(start, number)

SpecBump == InitBump /\ [][NextBump]_vars

\* ------------------------------------------- one pass on a longer line
\* a line of an empty grid on which a few cells are filled or crossed and
\* one pass is then run and applied, as the tests of the passes do
InitLong ==
    /\ width \in 1..MaxLongLen
    /\ height = 1
    /\ horz_clues \in {<<c>> : c \in Clues}
    /\ vert_clues = [x \in 1..width |-> <<>>]
    /\ filled = {}
    /\ crossed = {}
    /\ last_pass = "none"
    /\ last_axis = "Horz"
    /\ pre_filled = {}
    /\ pre_crossed = {}
    /\ hints = <<>>
    /\ bump = <<>>
    /\ status = "ok"
    /\ cmp = <<>>
    /\ call = <<>>
    /\ pc = Idle
    /\ SolverStart

LongSetupOpen ==
    /\ last_pass = "none"
    /\ Cardinality(filled) + Cardinality(crossed) < MaxLongSetup

NextLong ==
    \/ \E i \in 0..(width - 1) : LongSetupOpen /\ Fill(i)
    \/ \E i \in 0..(width - 1) : LongSetupOpen /\ Cross(i)
    \/ \E pass \in {"ContinuousRange", "DiscreteRange"} :
          /\ last_pass = "none"
          /\ ApplyPass(pass, "Horz")
          /\ UNCHANGED solver_vars

SpecLong == InitLong /\ [][NextLong]_vars

\* ----------------------------------------------- bump_last on a line
\* Line::bump_last(last, number) on horz_mut(0); the call and its result
\* are kept as <<last, number, result, "bump_last">>
BumpLastCall(last, number) ==
    /\ status = "ok"
    /\ LET l == View(width, height, filled, crossed, "Horz", 0)
       IN IF BumpLastPanics(l, last, number)
          THEN bump' = <<>> /\ status' = "panic"
          ELSE /\ bump' = <<last, number, BumpLast(l, last, number), "bump_last">>
               /\ status' = "ok"
    /\ last_pass' = "none"
    /\ last_axis' = "Horz"
    /\ pre_filled' = {}
    /\ pre_crossed' = {}
    /\ hints' = <<>>
    /\ cmp' = <<>>
    /\ call' = <<>>
    /\ UNCHANGED pc
    /\ UNCHANGED <<width, height, horz_clues, vert_clues, filled, crossed>>
    /\ UNCHANGED solver_vars

NextBumpLast ==
    \/ \E i \in 0..(width - 1) : Fill(i)
    \/ \E i \in 0..(width - 1) : Cross(i)
    \/ \E last \in 0..(width - 1) : \E number \in 1..MaxNumber : BumpLastCall(last, number)

SpecBumpLast == InitBump /\ [][NextBumpLast]_vars

\* ------------------------------------------- the driver's grid (main.rs)
\* Grid::index(x, y, transposed) of the driver
DriverIndex(w, h, x, y, transposed) ==
    IF transposed THEN x * h + y ELSE y * w + x

\* one of the two asserts of Grid::index fails
DriverIndexPanics(w, h, x, y, transposed) ==
    IF transposed THEN ~(x < h /\ y < w) ELSE ~(x < w /\ y < h)

\* Puzzle::try_from_ast of the driver for a puzzle text without a grid:
\* two bit sets of capacity w * h, all zeros
InitDriver ==
    /\ width \in 1..MaxWidth
    /\ height \in 1..MaxHeight
    /\ horz_clues = [y \in 1..height |-> <<>>]
    /\ vert_clues = [x \in 1..width |-> <<>>]
    /\ filled = {}
    /\ crossed = {}
    /\ last_pass = "none"
    /\ last_axis = "Horz"
    /\ pre_filled = {}
    /\ pre_crossed = {}
    /\ hints = <<>>
    /\ bump = <<>>
    /\ status = "ok"
    /\ cmp = <<>>
    /\ call = <<>>
    /\ pc = Idle
    /\ SolverStart

\* a put on one of the two bit sets at Grid::index(x, y, transposed); the
\* asserts of index and a bit beyond the capacity of the set panic
DriverPut(S, x, y, transposed) ==
    LET i == DriverIndex(width, height, x, y, transposed)
    IN /\ status = "ok" /\ SetupOpen
       /\ call' = [x |-> x, y |-> y, transposed |-> transposed, index |-> i]
       /\ IF DriverIndexPanics(width, height, x, y, transposed) \/ i >= width * height
          THEN /\ status' = "panic"
               /\ UNCHANGED <<filled, crossed>>
          ELSE /\ status' = "ok"
               /\ filled' = IF S = "filled" THEN filled \cup {i} ELSE filled
               /\ crossed' = IF S = "crossed" THEN crossed \cup {i} ELSE crossed
       /\ UNCHANGED <<width, height, horz_clues, vert_clues, last_pass, last_axis,
                      pre_filled, pre_crossed, hints, bump, cmp, pc>>
       /\ UNCHANGED solver_vars

\* Grid::fill(x, y, transposed) of the driver
DriverFill(x, y, transposed) == DriverPut("filled", x, y, transposed)

\* Grid::cross(x, y, transposed) of the driver
DriverCross(x, y, transposed) == DriverPut("crossed", x, y, transposed)

NextDriver ==
    \E x \in 0..(Max(width, height) - 1) : \E y \in 0..(Max(width, height) - 1) :
        \E transposed \in BOOLEAN :
            \/ DriverFill(x, y, transposed)
            \/ DriverCross(x, y, transposed)

SpecDriver == InitDriver /\ [][NextDriver]_vars

\* ------------------------------------------- comparing FilledRun hints
\* the FilledRun values of a line of n cells and a clue of k runs
FilledRuns(n, k) ==
    {[start |-> a, end |-> b, numbers |-> ns] :
        a \in 0..(n - 1), b \in 1..n, ns \in SUBSET (0..(k - 1))}

InitEq ==
    /\ Init
    /\ width <= MaxWidth

\* a == b on two FilledRun hints; the operands and the result are kept
FilledRunEqCall(a, b) ==
    /\ status = "ok"
    /\ cmp' = <<a, b, FilledRunEq(a, b)>>
    /\ call' = <<>>
    /\ UNCHANGED pc
    /\ UNCHANGED <<width, height, horz_clues, vert_clues, filled, crossed,
                   last_pass, last_axis, pre_filled, pre_crossed, hints, bump, status>>
    /\ UNCHANGED solver_vars

NextEq ==
    \E a \in FilledRuns(width, Len(horz_clues[1])) :
        \E b \in FilledRuns(width, Len(horz_clues[1])) : FilledRunEqCall(a, b)

SpecEq == InitEq /\ [][NextEq]_vars

\* ------------------------------------------------------- a whole puzzle
\* the clue of a line of a solved grid: the lengths of its runs of cells
\* of S, left to right
RECURSIVE RunsOf(_, _, _, _)
RunsOf(S, i, n, run) ==
    IF i >= n THEN (IF run > 0 THEN <<run>> ELSE <<>>)
    ELSE IF i \in S THEN RunsOf(S, i + 1, n, run + 1)
    ELSE (IF run > 0 THEN <<run>> ELSE <<>>) \o RunsOf(S, i + 1, n, 0)

\* Puzzle::try_from_ast of a puzzle text without a grid: the clues of a
\* picture of at most MaxWidth x MaxHeight cells and an empty grid
InitPuzzle ==
    /\ width \in 1..MaxWidth
    /\ height \in 1..MaxHeight
    /\ \E S \in SUBSET (0..(width * height - 1)) :
          /\ horz_clues = [y \in 1..height |->
                RunsOf(View(width, height, S, {}, "Horz", y - 1).filled, 0, width, 0)]
          /\ vert_clues = [x \in 1..width |->
                RunsOf(View(width, height, S, {}, "Vert", x - 1).filled, 0, height, 0)]
    /\ filled = {}
    /\ crossed = {}
    /\ last_pass = "none"
    /\ last_axis = "Horz"
    /\ pre_filled = {}
    /\ pre_crossed = {}
    /\ hints = <<>>
    /\ bump = <<>>
    /\ status = "ok"
    /\ cmp = <<>>
    /\ call = <<>>
    /\ pc = Idle
    /\ SolverStart

NextPuzzle ==
    \E pass \in Passes : \E axis \in {"Horz", "Vert"} :
        ApplyPass(pass, axis) /\ UNCHANGED solver_vars

SpecPuzzle == InitPuzzle /\ [][NextPuzzle]_vars

\* ------------------------------------- LinePassExt::apply, step by step
\* let hints = self.run_puzzle(axis, puzzle): run_horz / run_vert start
\* with an empty vector
PassBegin(pass, axis) ==
    /\ status = "ok"
    /\ pc = Idle
    /\ pc' = [phase |-> "run", line |-> 0, k |-> 0]
    /\ last_pass' = pass
    /\ last_axis' = axis
    /\ pre_filled' = filled
    /\ pre_crossed' = crossed
    /\ hints' = <<>>
    /\ bump' = <<>>
    /\ cmp' = <<>>
    /\ call' = <<>>
    /\ UNCHANGED <<width, height, horz_clues, vert_clues, filled, crossed, status>>
    /\ UNCHANGED solver_vars

\* variant: the hints of a line are applied as soon as they are generated
RunLineApplying ==
    /\ status = "ok"
    /\ pc.phase = "run"
    /\ pc.line < Len(AxisClues(horz_clues, vert_clues, last_axis))
    /\ LET r == PassRun(last_pass, ClueAt(last_axis, pc.line), CurLine(last_axis, pc.line))
           new == [k \in 1..Len(r.hints) |->
                     [axis |-> last_axis, line |-> pc.line, line_hint |-> r.hints[k]]]
           g == ApplyAll(new, 1, width, height,
                         [filled |-> filled, crossed |-> crossed, panic |-> r.panic])
       IN /\ hints' = hints \o new
          /\ filled' = g.filled
          /\ crossed' = g.crossed
          /\ status' = IF g.panic THEN "panic" ELSE "ok"
          /\ pc' = IF g.panic THEN Idle ELSE [pc EXCEPT !.line = pc.line + 1]
    /\ UNCHANGED <<width, height, horz_clues, vert_clues,
                   last_pass, last_axis, pre_filled, pre_crossed, bump, cmp, call>>
    /\ UNCHANGED solver_vars

\* one iteration of the loop of run_horz / run_vert: the pass is run on
\* the read-only view of the next line and its hints are pushed
RunLine ==
    /\ status = "ok"
    /\ pc.phase = "run"
    /\ pc.line < Len(AxisClues(horz_clues, vert_clues, last_axis))
    /\ LET r == PassRun(last_pass, ClueAt(last_axis, pc.line), CurLine(last_axis, pc.line))
           new == [k \in 1..Len(r.hints) |->
                     [axis |-> last_axis, line |-> pc.line, line_hint |-> r.hints[k]]]
       IN /\ hints' = IF r.panic THEN <<>> ELSE hints \o new
          /\ status' = IF r.panic THEN "panic" ELSE "ok"
          /\ pc' = IF r.panic THEN Idle ELSE [pc EXCEPT !.line = pc.line + 1]
    /\ UNCHANGED <<width, height, horz_clues, vert_clues, filled, crossed,
                   last_pass, last_axis, pre_filled, pre_crossed, bump, cmp, call>>
    /\ UNCHANGED solver_vars

\* run_puzzle returns the vector; the loop over the hints starts
RunDone ==
    /\ status = "ok"
    /\ pc.phase = "run"
    /\ pc.line = Len(AxisClues(horz_clues, vert_clues, last_axis))
    /\ pc' = [phase |-> "apply", line |-> pc.line, k |-> 1]
    /\ UNCHANGED <<width, height, horz_clues, vert_clues, filled, crossed,
                   last_pass, last_axis, pre_filled, pre_crossed, hints, bump,
                   status, cmp, call>>
    /\ UNCHANGED solver_vars

\* for hint in &hints { hint.apply(puzzle) }: one iteration
ApplyNext ==
    /\ status = "ok"
    /\ pc.phase = "apply"
    /\ pc.k <= Len(hints)
    /\ LET g == HintApply(hints[pc.k], width, height,
                          [filled |-> filled, crossed |-> crossed, panic |-> FALSE])
       IN /\ filled' = g.filled
          /\ crossed' = g.crossed
          /\ status' = IF g.panic THEN "panic" ELSE "ok"
          /\ pc' = IF g.panic THEN Idle ELSE [pc EXCEPT !.k = pc.k + 1]
    /\ UNCHANGED <<width, height, horz_clues, vert_clues,
                   last_pass, last_axis, pre_filled, pre_crossed, hints, bump, cmp, call>>
    /\ UNCHANGED solver_vars

\* the loop is over and apply returns the hints
ApplyDone ==
    /\ status = "ok"
    /\ pc.phase = "apply"
    /\ pc.k > Len(hints)
    /\ pc' = Idle
    /\ UNCHANGED <<width, height, horz_clues, vert_clues, filled, crossed,
                   last_pass, last_axis, pre_filled, pre_crossed, hints, bump,
                   status, cmp, call>>
    /\ UNCHANGED solver_vars

NextStepwise ==
    \/ \E pass \in Passes : \E axis \in {"Horz", "Vert"} : PassBegin(pass, axis)
    \/ RunLine
    \/ RunDone
    \/ ApplyNext
    \/ ApplyDone

\* the passes applied to a small puzzle, LinePassExt::apply taken one
\* statement at a time
SpecStepwise == InitPuzzle /\ [][NextStepwise]_vars

\* ------------------------------------------------- the solver (scheduler)
\* the pass at index p of [CrowdedClue, ContinuousRange, DiscreteRange]
PassAt(p) == <<"CrowdedClue", "ContinuousRange", "DiscreteRange">>[p + 1]

\* the axis flip
Flip(a) == IF a = "Horz" THEN "Vert" ELSE "Horz"

\* Puzzle::is_complete: no cell of the grid is Undecided
IsComplete ==
    \A i \in 0..(width * height - 1) : i \in filled \/ i \in crossed

\* the solver stops when the grid is complete or the passes are exhausted
Terminated == IsComplete \/ cur_p >= 3

\* the pass index and the fail count after a run of pass p that emitted
\* hints or not: success resets the count and demotes DiscreteRange, the
\* second failure in a row promotes and resets the count
AfterRun(p, fc, emitted) ==
    IF emitted
    THEN [cur_p |-> IF p > 1 THEN 1 ELSE p, fail_count |-> 0]
    ELSE IF fc + 1 >= 2
         THEN [cur_p |-> p + 1, fail_count |-> 0]
         ELSE [cur_p |-> p, fail_count |-> fc + 1]

\* variant: CrowdedClue is left only by promotion
AfterFlipStay(p, a, next_p) == next_p

\* after the axis flip to a: when the flip wrapped and the pass that ran
\* was CrowdedClue, the pass index advances to 1
AfterFlip(p, a, next_p) ==
    IF a = "Horz" /\ PassAt(p) = "CrowdedClue" THEN 1 ELSE next_p

\* one step of the solver: run pass cur_p on axis cur_a, apply the hints,
\* update the scheduler state.  A pass that panics ends the process.
SolverStep ==
    /\ ~Terminated
    /\ ApplyPass(PassAt(cur_p), cur_a)
    /\ trace' = Append(trace, [pass |-> PassAt(cur_p), axis |-> cur_a,
                               emitted |-> hints' # <<>>])
    /\ IF status' = "panic"
       THEN UNCHANGED <<cur_p, cur_a, fail_count>>
       ELSE LET r == AfterRun(cur_p, fail_count, hints' # <<>>)
            IN /\ cur_a' = Flip(cur_a)
               /\ cur_p' = AfterFlip(cur_p, Flip(cur_a), r.cur_p)
               /\ fail_count' = r.fail_count

\* the clues that fit a line of n cells, the empty clue among them
FittingClues(n) == {c \in Clues : SumSeq(c) + Len(c) - 1 <= n}

\* a puzzle text without a grid whose clues fit their lines
InitSolver ==
    /\ width \in 1..MaxWidth
    /\ height \in 1..MaxHeight
    /\ horz_clues \in [1..height -> FittingClues(width)]
    /\ vert_clues \in [1..width -> FittingClues(height)]
    /\ filled = {}
    /\ crossed = {}
    /\ last_pass = "none"
    /\ last_axis = "Horz"
    /\ pre_filled = {}
    /\ pre_crossed = {}
    /\ hints = <<>>
    /\ bump = <<>>
    /\ status = "ok"
    /\ cmp = <<>>
    /\ call = <<>>
    /\ pc = Idle
    /\ SolverStart

NextSolver == SolverStep

SpecSolver == InitSolver /\ [][NextSolver]_vars

\* ================================================================ claims
NoImpossible(l) == l.filled \cap l.crossed = {}

\* the cells covered by the runs of a placement
Covered(p, clue) == UNION {p[i]..(p[i] + clue[i] - 1) : i \in 1..Len(clue)}

\* a legal placement: the runs lie in the line, in order, separated by at
\* least one cell, cover no crossed cell and leave no filled cell uncovered
Legal(p, clue, l) ==
    /\ \A i \in 1..Len(clue) : p[i] + clue[i] <= l.len
    /\ \A i \in 1..(Len(clue) - 1) : p[i] + clue[i] + 1 <= p[i + 1]
    /\ Covered(p, clue) \cap l.crossed = {}
    /\ l.filled \subseteq Covered(p, clue)

LegalPlacements(clue, l) ==
    {p \in [1..Len(clue) -> 0..(l.len - 1)] : Legal(p, clue, l)}

\* cells filled / empty in every legal placement
AlwaysFilled(clue, l) ==
    {c \in 0..(l.len - 1) : \A p \in LegalPlacements(clue, l) : c \in Covered(p, clue)}
AlwaysEmpty(clue, l) ==
    {c \in 0..(l.len - 1) : \A p \in LegalPlacements(clue, l) : c \notin Covered(p, clue)}

HasLegal(axis, j) ==
    /\ NoImpossible(PreLine(axis, j))
    /\ LegalPlacements(ClueAt(axis, j), PreLine(axis, j)) # {}

\* C1: soundness of the passes.  On a line without Impossible cells that
\* admits a legal placement of its clue, every hint a pass emits fills only
\* cells filled in every legal placement and crosses only cells empty in
\* every legal placement, and applying the hints leaves no cell Impossible.
Soundness ==
    last_pass \in Passes =>
        \A k \in 1..Len(hints) :
            LET hint == hints[k]
                l == PreLine(hint.axis, hint.line)
                clue == ClueAt(hint.axis, hint.line)
                after == ApplyHint(hint.line_hint, l)
            IN HasLegal(hint.axis, hint.line) =>
                  /\ after.filled \subseteq AlwaysFilled(clue, l)
                  /\ after.crossed \subseteq AlwaysEmpty(clue, l)
                  /\ ~after.panic
                  /\ NoImpossible(CurLine(hint.axis, hint.line))

\* a ContinuousRange step on a line with a legal placement whose hints
\* both filled and crossed cells that were undecided
SoundnessWitness ==
    /\ last_pass = "ContinuousRange" /\ status = "ok"
    /\ HasLegal("Horz", 0)
    /\ \E k \in 1..Len(hints) : hints[k].line_hint.kind = "TurfFarSingleton"
    /\ filled # pre_filled /\ crossed # pre_crossed

\* C2: monotonicity.  No step (fill, cross, fill_range, cross_range or the
\* application of a pass's hints) clears a filled bit or a crossed bit, so
\* an Impossible cell stays Impossible.
Monotone ==
    [][filled \subseteq filled' /\ crossed \subseteq crossed']_vars

\* hints were applied to a line that holds an Impossible cell
MonotoneWitness ==
    /\ last_pass \in Passes /\ hints # <<>>
    /\ pre_filled \cap pre_crossed # {}
    /\ filled \cap crossed # {}
    /\ filled # pre_filled

\* C3: single-shot hints.  For every hint a pass returned on a line, the
\* check of the hint is false on that line after the hint is applied.
SingleShot ==
    last_pass \in Passes =>
        \A k \in 1..Len(hints) :
            LET hint == hints[k]
                after == ApplyHint(hint.line_hint, PreLine(hint.axis, hint.line))
            IN ~after.panic =>
                  /\ ~CheckPanics(hint.line_hint, after)
                  /\ ~Check(hint.line_hint, after)

\* ContinuousRange returned a TurfPair hint among several, and they were
\* applied
SingleShotWitness ==
    /\ last_pass = "ContinuousRange" /\ status = "ok"
    /\ \E k \in 1..Len(hints) : hints[k].line_hint.kind = "TurfPair"
    /\ Len(hints) >= 2
    /\ filled # pre_filled

\* C4: every hint returned by ContinuousRange or DiscreteRange passes its
\* check on the line it was generated on, so applying it sets a bit that was
\* not set; a run that changes nothing returned no hints.
FreshHints ==
    last_pass \in {"ContinuousRange", "DiscreteRange"} =>
        /\ \A k \in 1..Len(hints) :
              LET hint == hints[k]
                  l == PreLine(hint.axis, hint.line)
                  after == ApplyHint(hint.line_hint, l)
              IN /\ ~CheckPanics(hint.line_hint, l)
                 /\ Check(hint.line_hint, l)
                 /\ (after.filled # l.filled \/ after.crossed # l.crossed)
        /\ (filled = pre_filled /\ crossed = pre_crossed) => hints = <<>>

\* a DiscreteRange run on a line with a legal placement and cells already
\* set returned a FilledRun and a CrossedRun
FreshHintsWitness ==
    /\ last_pass = "DiscreteRange" /\ status = "ok"
    /\ pre_filled # {} /\ pre_crossed # {}
    /\ HasLegal("Horz", 0)
    /\ \E k \in 1..Len(hints) : hints[k].line_hint.kind = "FilledRun"
    /\ \E k \in 1..Len(hints) : hints[k].line_hint.kind = "CrossedRun"

\* C5: the support bounds are sound.  For every legal placement p of the
\* clue on the line, run i starts at or after range_starts[i] and ends at
\* or before range_ends[i] (in forward order).
SupportSound ==
    last_pass = "ContinuousRange" =>
        LET l == PreLine("Horz", 0)
            clue == ClueAt("Horz", 0)
            rs == RangeStarts(clue, l)
            re == Reverse(RangeEnds(clue, l))
        IN \A p \in LegalPlacements(clue, l) :
              \A i \in 1..Len(clue) :
                  rs[i] <= p[i] /\ p[i] + clue[i] <= re[i]

\* ContinuousRange ran on a line with filled and crossed cells, a clue of
\* two runs and several legal placements
SupportSoundWitness ==
    /\ last_pass = "ContinuousRange" /\ status = "ok"
    /\ Len(ClueAt("Horz", 0)) = 2
    /\ pre_filled # {} /\ pre_crossed # {}
    /\ Cardinality(LegalPlacements(ClueAt("Horz", 0), PreLine("Horz", 0))) >= 2

\* the maximal runs <<a, b>> (half-open) of the cells of S in a line of n
MaximalRuns(S, n) ==
    {r \in (0..n) \X (0..n) :
        /\ r[1] < r[2]
        /\ r[1]..(r[2] - 1) \subseteq S
        /\ (r[1] - 1) \notin S
        /\ r[2] \notin S}

\* what brute force over the legal placements asks of DiscreteRange: a
\* FilledRun per maximal run of always-filled cells that holds a cell not
\* yet filled, a CrossedRun per maximal run of always-empty cells that
\* holds a cell not yet crossed
ExpectedRuns(clue, l) ==
    {<<"FilledRun", r[1], r[2]>> :
        r \in {q \in MaximalRuns(AlwaysFilled(clue, l), l.len) :
                  \E c \in q[1]..(q[2] - 1) : c \notin l.filled}}
    \cup
    {<<"CrossedRun", r[1], r[2]>> :
        r \in {q \in MaximalRuns(AlwaysEmpty(clue, l), l.len) :
                  \E c \in q[1]..(q[2] - 1) : c \notin l.crossed}}

\* the returned hints are exactly the expected runs, left to right
ExactRuns(clue, l) ==
    LET t(k) == <<hints[k].line_hint.kind, hints[k].line_hint.start,
                  hints[k].line_hint.end>>
    IN /\ {t(k) : k \in 1..Len(hints)} = ExpectedRuns(clue, l)
       /\ Len(hints) = Cardinality(ExpectedRuns(clue, l))
       /\ \A k \in 1..(Len(hints) - 1) :
             hints[k].line_hint.end <= hints[k + 1].line_hint.start

\* C6 as stated: DiscreteRange is exact against brute force on every line
\* without Impossible cells.
DiscreteExactAnyLine ==
    (last_pass = "DiscreteRange" /\ NoImpossible(PreLine("Horz", 0))) =>
        ExactRuns(ClueAt("Horz", 0), PreLine("Horz", 0))

\* C6 amended: DiscreteRange is exact against brute force on every line
\* without Impossible cells on which the clue has a legal placement.
DiscreteExact ==
    (last_pass = "DiscreteRange" /\ HasLegal("Horz", 0)) =>
        ExactRuns(ClueAt("Horz", 0), PreLine("Horz", 0))

\* DiscreteRange ran on a line with a filled cell and several legal
\* placements of a clue of two runs, and returned hints of both kinds
DiscreteExactWitness ==
    /\ last_pass = "DiscreteRange" /\ status = "ok"
    /\ HasLegal("Horz", 0)
    /\ pre_filled # {}
    /\ Len(ClueAt("Horz", 0)) = 2
    /\ Cardinality(LegalPlacements(ClueAt("Horz", 0), PreLine("Horz", 0))) >= 2
    /\ {hints[k].line_hint.kind : k \in 1..Len(hints)} = {"FilledRun", "CrossedRun"}

\* C7: after the enumeration of DiscreteRange, the cells filled by some
\* enumerated placement are the complement of the crossed mask (must_cross)
\* over the line, and the cells filled by all of them are the filled mask
\* (must_fill).
MasksMatchPlacements ==
    last_pass = "DiscreteRange" =>
        LET l == PreLine("Horz", 0)
            clue == ClueAt("Horz", 0)
            placements == Solve(l, clue, 1, 0, <<>>)
            poss == Possibilities(clue, l)
            cells == 0..(l.len - 1)
        IN /\ cells \ poss.crossed =
                 UNION {Covered(placements[k], clue) : k \in 1..Len(placements)}
           /\ poss.filled =
                 {c \in cells : \A k \in 1..Len(placements) :
                                   c \in Covered(placements[k], clue)}

\* DiscreteRange enumerated several placements that left cells in both
\* masks
MasksMatchWitness ==
    /\ last_pass = "DiscreteRange" /\ status = "ok"
    /\ LET l == PreLine("Horz", 0)
           clue == ClueAt("Horz", 0)
           poss == Possibilities(clue, l)
       IN /\ Len(Solve(l, clue, 1, 0, <<>>)) >= 3
          /\ poss.filled # {}
          /\ poss.crossed # {}
          /\ l.filled # {}

\* the cells of the line that lie in the support of some run
InSomeSupport(clue, l) ==
    LET rs == RangeStarts(clue, l)
        re == Reverse(RangeEnds(clue, l))
    IN {c \in 0..l.len : \E i \in 1..Len(clue) : rs[i] <= c /\ c < re[i]}

KernelsIn(clue, l) ==
    \A k \in 1..Len(hints) :
        hints[k].line_hint.kind = "Kernel" =>
            hints[k].line_hint.kernel_start..(hints[k].line_hint.kernel_end - 1)
                \subseteq InSomeSupport(clue, l)

\* C9 as stated: on any line, with or without a legal placement of the
\* clue, every cell of every Kernel hint of ContinuousRange lies in the
\* support of some run.
KernelInSupportAnyLine ==
    last_pass = "ContinuousRange" =>
        KernelsIn(ClueAt("Horz", 0), PreLine("Horz", 0))

\* C10: bump_start is idempotent: called again with its own result and
\* the same run length, it returns that result.
BumpStartIdempotent ==
    (bump # <<>> /\ status = "ok") =>
        LET l == CurLine("Horz", 0) IN
        /\ ~BumpStartPanics(l, bump[3])
        /\ BumpStart(l, bump[3], bump[2]) = bump[3]

\* a line is completed when it has no Undecided cell
LineCompleted(axis, j) ==
    LET l == CurLine(axis, j) IN (0..(l.len - 1)) \subseteq (l.filled \cup l.crossed)

FilledCount(axis, j) == Cardinality(CurLine(axis, j).filled)

AllLines ==
    {<<"Horz", j>> : j \in 0..(height - 1)} \cup {<<"Vert", j>> : j \in 0..(width - 1)}

\* C8 as stated: after hints were applied to a solvable puzzle, every line
\* has at most as many filled cells as its clue sums to, and exactly as
\* many precisely when it has no Undecided cell.
FilledSumIffCompleted ==
    last_pass \in Passes =>
        \A al \in AllLines :
            /\ FilledCount(al[1], al[2]) <= SumSeq(ClueAt(al[1], al[2]))
            /\ (FilledCount(al[1], al[2]) = SumSeq(ClueAt(al[1], al[2])))
                   <=> LineCompleted(al[1], al[2])

\* C8 amended: after hints were applied to a solvable puzzle, every line
\* has at most as many filled cells as its clue sums to, and exactly as
\* many whenever it has no Undecided cell.
FilledSumWhenCompleted ==
    last_pass \in Passes =>
        \A al \in AllLines :
            /\ FilledCount(al[1], al[2]) <= SumSeq(ClueAt(al[1], al[2]))
            /\ LineCompleted(al[1], al[2])
                   => FilledCount(al[1], al[2]) = SumSeq(ClueAt(al[1], al[2]))

\* hints were applied to a puzzle: a row is completed with filled and
\* crossed cells, and a column has all its filled cells but is not completed
FilledSumWitness ==
    /\ last_pass \in Passes /\ status = "ok" /\ hints # <<>>
    /\ \E j \in 0..(height - 1) :
          /\ LineCompleted("Horz", j)
          /\ CurLine("Horz", j).filled # {}
          /\ CurLine("Horz", j).crossed # {}
    /\ \E j \in 0..(width - 1) :
          /\ ~LineCompleted("Vert", j)
          /\ FilledCount("Vert", j) = SumSeq(ClueAt("Vert", j))
          /\ FilledCount("Vert", j) > 0

\* a start s is legal for a run of n: no cell of [s, s+n) inside the line
\* is crossed, and cell s+n is not filled or lies beyond the line
LegalStart(l, s, n) ==
    /\ \A c \in s..(s + n - 1) : c < l.len => c \notin l.crossed
    /\ (s + n) \notin l.filled

\* the start the search begins with
SearchStart(l, start) ==
    IF start > 0 /\ (start - 1) \in l.filled THEN start + 1 ELSE start

\* C11: on a line without Impossible cells, bump_start(start, n) returns
\* the earliest legal start: the smallest s at or after the search start
\* (start + 1 when cell start-1 is filled, else start) such that no cell of
\* [s, s+n) inside the line is crossed and cell s+n is not filled.
EarliestLegalStart ==
    (bump # <<>> /\ status = "ok" /\ NoImpossible(CurLine("Horz", 0))) =>
        LET l == CurLine("Horz", 0)
            first == SearchStart(l, bump[1])
        IN /\ bump[3] >= first
           /\ LegalStart(l, bump[3], bump[2])
           /\ \A s \in first..(bump[3] - 1) : ~LegalStart(l, s, bump[2])

\* bump_start moved a run of two or more past a crossed cell and then past
\* a filled cell
EarliestLegalStartWitness ==
    /\ bump # <<>> /\ status = "ok" /\ NoImpossible(CurLine("Horz", 0))
    /\ LET l == CurLine("Horz", 0)
           first == SearchStart(l, bump[1])
       IN /\ bump[2] >= 2
          /\ \E c \in l.crossed : first <= c /\ c < bump[3]
          /\ (bump[3] + bump[2] - 1) \in l.filled
          /\ bump[3] >= first + 2

\* a clue of one run or more that fits a line of n cells
ClueFits(clue, n) == clue # <<>> /\ SumSeq(clue) + Len(clue) - 1 <= n

\* the kernel [x0 + freedom, x0 + c_i) of run i on a line of n cells
CrowdedKernel(clue, n, i) ==
    LET freedom == n - (SumSeq(clue) + Len(clue) - 1)
        x0 == SumSeq(SubSeq(clue, 1, i - 1)) + (i - 1)
    IN <<x0 + freedom, x0 + clue[i]>>

\* the runs longer than the freedom
CrowdedRuns(clue, n) ==
    {i \in 1..Len(clue) : clue[i] > n - (SumSeq(clue) + Len(clue) - 1)}

\* the hints of the last pass are the kernels of the runs of R, in run order
HintsAreKernels(clue, n, R) ==
    /\ Len(hints) = Cardinality(R)
    /\ \A k \in 1..Len(hints) :
          LET i == CHOOSE r \in R : Cardinality({q \in R : q < r}) = k - 1
          IN /\ hints[k].line_hint.kind = "CrowdedClue"
             /\ <<hints[k].line_hint.kernel_start, hints[k].line_hint.kernel_end>>
                   = CrowdedKernel(clue, n, i)

\* C12 as stated: CrowdedClue emits exactly one hint {x0 + freedom,
\* x0 + c_i} for each run i with c_i > freedom and no other hint, whatever
\* cells are already set on the line.
CrowdedClueDriven ==
    (last_pass = "CrowdedClue" /\ ClueFits(ClueAt("Horz", 0), width)) =>
        HintsAreKernels(ClueAt("Horz", 0), width, CrowdedRuns(ClueAt("Horz", 0), width))

\* C12 amended: CrowdedClue emits, in run order, exactly one hint
\* {x0 + freedom, x0 + c_i} for each run i with c_i > freedom whose kernel
\* holds a cell that is not filled yet, and no other hint.
CrowdedClueFresh ==
    (last_pass = "CrowdedClue" /\ ClueFits(ClueAt("Horz", 0), width)) =>
        LET clue == ClueAt("Horz", 0)
            l == PreLine("Horz", 0)
            unfilled(i) == \E c \in CrowdedKernel(clue, width, i)[1]..
                                    (CrowdedKernel(clue, width, i)[2] - 1) :
                              c \notin l.filled
        IN HintsAreKernels(clue, width, {i \in CrowdedRuns(clue, width) : unfilled(i)})

\* CrowdedClue ran with a clue of two runs longer than the freedom; the
\* kernel of the first was filled already and only the second got a hint
CrowdedClueFreshWitness ==
    /\ last_pass = "CrowdedClue" /\ status = "ok"
    /\ Cardinality(CrowdedRuns(ClueAt("Horz", 0), width)) = 2
    /\ Len(hints) = 1
    /\ hints[1].line_hint.kernel_start > ClueAt("Horz", 0)[1]
    /\ filled # pre_filled

\* C13: when the clue does not fit the line (sum + k - 1 > N) CrowdedClue
\* reports the ill-formed clue and aborts that line: the run returns (an
\* error outcome, no hint) and computes no wrapped freedom.
IllFormedReported ==
    (/\ last_pass = "CrowdedClue"
     /\ ClueAt("Horz", 0) # <<>>
     /\ ~ClueFits(ClueAt("Horz", 0), width)) =>
        status = "ok" /\ hints = <<>>

\* C14: no pass fails on well-formed input: for every clue that fits the
\* line, the empty clue included, and every line that admits a legal
\* placement, each pass returns its hints without an assertion failure, an
\* unsigned underflow or an index out of range.
NoPanicWellFormed ==
    (/\ last_pass \in Passes
     /\ SumSeq(ClueAt("Horz", 0)) + Len(ClueAt("Horz", 0)) - 1 <= width
     /\ HasLegal("Horz", 0)) =>
        status = "ok"

\* C15: two FilledRun hints compare equal if and only if they have the
\* same start, the same end and the same set of run indices.
FilledRunEqIff ==
    cmp # <<>> =>
        (cmp[3] <=> (/\ cmp[1].start = cmp[2].start
                     /\ cmp[1].end = cmp[2].end
                     /\ cmp[1].numbers = cmp[2].numbers))

\* the grid after the first k hints of the last pass were applied
GridAfter(k) ==
    ApplyAll(SubSeq(hints, 1, k), 1, width, height,
             [filled |-> pre_filled, crossed |-> pre_crossed, panic |-> FALSE])

\* the bits of the grid that hint k of the last pass set
WrittenBy(k) ==
    (GridAfter(k).filled \ GridAfter(k - 1).filled)
    \cup (GridAfter(k).crossed \ GridAfter(k - 1).crossed)

\* the cells (x, y) of row j, or of column j, as bits y * width + x
CellsOfLine(axis, j) ==
    IF axis = "Horz"
    THEN {j * width + x : x \in 0..(width - 1)}
    ELSE {y * width + j : y \in 0..(height - 1)}

\* C16: applying a hint for (axis, line j) changes only cells of that row
\* or column and leaves every other cell of the grid as it was, so hints
\* of two different lines of the same axis write disjoint sets of cells.
HintFrame ==
    last_pass \in Passes =>
        /\ \A k \in 1..Len(hints) :
              /\ WrittenBy(k) \subseteq CellsOfLine(hints[k].axis, hints[k].line)
              /\ GridAfter(k - 1).filled \subseteq GridAfter(k).filled
              /\ GridAfter(k - 1).crossed \subseteq GridAfter(k).crossed
        /\ \A k1, k2 \in 1..Len(hints) :
              hints[k1].line # hints[k2].line => WrittenBy(k1) \cap WrittenBy(k2) = {}
        /\ (filled \ pre_filled) \cup (crossed \ pre_crossed)
              = UNION {WrittenBy(k) : k \in 1..Len(hints)}

\* a pass on the columns of a grid of two rows returned hints for two
\* different columns, and each of them set a cell
HintFrameWitness ==
    /\ last_pass \in Passes /\ status = "ok" /\ last_axis = "Vert"
    /\ height = 2
    /\ \E k1, k2 \in 1..Len(hints) :
          /\ hints[k1].line # hints[k2].line
          /\ WrittenBy(k1) # {}
          /\ WrittenBy(k2) # {}
          /\ WrittenBy(k1) # CellsOfLine("Vert", hints[k1].line)

\* C17: the solver always terminates: every run reaches, after finitely
\* many steps, a terminal state in which the grid is complete or
\* cur_p >= 3, and takes no step after it.  Every step extends trace, so no
\* run is endless; a run that can go no further is in a terminal state.
SolverEndsTerminal ==
    status = "ok" \/ Terminated

\* C18: in every run of the solver, CrowdedClue is executed once on Horz,
\* as the first step, and, unless the solver has stopped, once on Vert, as
\* the second step, whether or not these runs emit hints, and never again.
CrowdedClueOnce ==
    /\ \A k \in 1..Len(trace) :
          trace[k].pass = "CrowdedClue" <=> k <= 2
    /\ Len(trace) >= 1 => trace[1].axis = "Horz"
    /\ Len(trace) >= 2 => trace[2].axis = "Vert"
    /\ (Len(trace) = 1 /\ status = "ok" /\ ~Terminated) =>
          (PassAt(cur_p) = "CrowdedClue" /\ cur_a = "Vert")
    /\ (Len(trace) >= 2 /\ status = "ok" /\ ~Terminated) =>
          PassAt(cur_p) # "CrowdedClue"

\* the solver went on to other passes after CrowdedClue had emitted hints
\* on the rows and none on the columns
CrowdedClueOnceWitness ==
    /\ status = "ok"
    /\ Len(trace) >= 4
    /\ trace[1].emitted
    /\ ~trace[2].emitted
    /\ trace[4].pass = "DiscreteRange"

\* C19: every DiscreteRange step comes after a ContinuousRange run on Horz
\* and one on Vert that emitted no hints, with no step that emitted hints
\* from the earlier of the two on; and the step after a DiscreteRange step
\* that emitted hints is a ContinuousRange step.
DiscreteAfterStall ==
    \A k \in 1..Len(trace) :
        trace[k].pass = "DiscreteRange" =>
            /\ \E i, j \in 1..(k - 1) :
                  /\ trace[i].pass = "ContinuousRange" /\ trace[i].axis = "Horz"
                  /\ trace[j].pass = "ContinuousRange" /\ trace[j].axis = "Vert"
                  /\ \A q \in Min(i, j)..(k - 1) : ~trace[q].emitted
            /\ (trace[k].emitted /\ k < Len(trace)) =>
                  trace[k + 1].pass = "ContinuousRange"

\* C20: a stalled terminal state is a fixpoint: when the solver has
\* terminated with cur_p >= 3, each of the three passes on each of the two
\* axes emits no hints on the final grid.
StallIsFixpoint ==
    (status = "ok" /\ cur_p >= 3) =>
        \A pass \in Passes : \A axis \in {"Horz", "Vert"} :
            RunPuzzle(pass, axis, width, height, horz_clues, vert_clues,
                      filled, crossed).hints = <<>>

\* ------------------------------------------------------------------ C21
\* the line hints of the last pass on line 0 of the horizontal axis
LineHints == [k \in 1..Len(hints) |-> hints[k].line_hint]

\* the hints the loop of ContinuousRange emitted for each run of the clue
RunSegments ==
    LET clue == ClueAt("Horz", 0)
        pre == PreLine("Horz", 0)
        rs == RangeStarts(clue, pre)
        re == Reverse(RangeEnds(clue, pre))
    IN [i \in 1..Len(clue) |-> RunHints(clue, pre, rs, re, i)]

IsTurf(h) ==
    h.kind \in {"TurfNearSingleton", "TurfFarSingleton", "TurfPair", "TurfSingleton"}

IsKernelOrTermination(h) == h.kind \in {"Kernel", "Termination"}

\* the returned list is the hints of the runs, in run order, with at most
\* an Unreachable hint before them
UnreachableFirst ==
    LET rest == ConcatMap(RunSegments, 1, Len(RunSegments))
    IN /\ \A k \in 1..Len(rest) : rest[k].kind # "Unreachable"
       /\ \/ LineHints = rest
          \/ /\ LineHints # <<>>
             /\ LineHints[1].kind = "Unreachable"
             /\ LineHints = <<LineHints[1]>> \o rest

\* position of a hint variant in the order of one iteration of the loop
HintRank(h) ==
    CASE h.kind = "Kernel" -> 1
      [] h.kind = "Termination" -> 2
      [] h.kind \in {"TurfNearSingleton", "TurfPair", "TurfSingleton"} -> 3
      [] h.kind = "TurfFarSingleton" -> 4
      [] OTHER -> 0

ContinuousRan == last_pass = "ContinuousRange" /\ status = "ok"

\* C21 as stated: Unreachable (if any) comes first, and each run emits at
\* most one of {Kernel, Termination}, followed by at most one turf hint.
OneKernelOrTerminationThenOneTurf ==
    ContinuousRan =>
        /\ UnreachableFirst
        /\ \A i \in 1..Len(RunSegments) :
              LET s == RunSegments[i] IN
              /\ Cardinality({k \in 1..Len(s) : IsKernelOrTermination(s[k])}) <= 1
              /\ Cardinality({k \in 1..Len(s) : IsTurf(s[k])}) <= 1
              /\ \A a, b \in 1..Len(s) :
                    IsTurf(s[a]) /\ IsKernelOrTermination(s[b]) => b < a

\* C21, amended: Unreachable (if any) comes first, and the hints of each
\* run are, in this order, at most one Kernel, at most one Termination, at
\* most one of {TurfNearSingleton, TurfPair, TurfSingleton} and at most one
\* TurfFarSingleton.
HintOrderWithinLine ==
    ContinuousRan =>
        /\ UnreachableFirst
        /\ \A i \in 1..Len(RunSegments) :
              LET s == RunSegments[i] IN
              \A a, b \in 1..Len(s) : a < b => HintRank(s[a]) < HintRank(s[b])

\* an Unreachable hint is followed by the hints of a run that gets a
\* kernel and another hint
HintOrderWithinLineWitness ==
    /\ ContinuousRan
    /\ Len(LineHints) >= 3
    /\ LineHints[1].kind = "Unreachable"
    /\ \E i \in 1..Len(RunSegments) :
          Len(RunSegments[i]) >= 2 /\ RunSegments[i][1].kind = "Kernel"

\* ------------------------------------------------------------------ C22
\* the TurfPair hints of the last ContinuousRange pass on the line
TurfPairs == {LineHints[k] : k \in {n \in 1..Len(LineHints) : LineHints[n].kind = "TurfPair"}}

\* C22: when a run without overlap kernel has two filled cells found_start <
\* found_end in its turf, then once the TurfPair hint emitted for them is
\* applied every cell strictly between found_start and found_end is filled,
\* and the turf cells farther than the run length from either of the two
\* are crossed.
TurfPairFillsBetween ==
    ContinuousRan =>
        \A h \in TurfPairs :
            LET l == CurLine("Horz", 0)
                number == h.reachable_end - h.found_start
            IN /\ \A x \in (h.found_start + 1)..(h.found_end - 1) : x \in l.filled
               /\ \A x \in h.turf_start..(h.turf_end - 1) :
                     (h.found_end - x > number \/ x - h.found_start > number)
                        => x \in l.crossed

\* ------------------------------------------------------------------ C23
\* the scenario: a line of 7 cells with clue [2] and only cell 4 filled,
\* on which ContinuousRange has just been run and applied
UnreachableScenario ==
    /\ ContinuousRan
    /\ width = 7
    /\ ClueAt("Horz", 0) = <<2>>
    /\ pre_filled = {4}
    /\ pre_crossed = {}

\* C23 as stated: in the scenario range_starts = [3] and range_ends = [5],
\* and the hints cross [0,3) and [5,7) and fill [3,5): xxx##xx.
UnreachableScenarioAsStated ==
    UnreachableScenario =>
        /\ RangeStarts(<<2>>, PreLine("Horz", 0)) = <<3>>
        /\ RangeEnds(<<2>>, PreLine("Horz", 0)) = <<5>>
        /\ filled = {3, 4}
        /\ crossed = {0, 1, 2, 5, 6}

\* C23, amended: in the scenario range_starts = [0] and range_ends = [6],
\* the pass returns Unreachable{0, 6} and a TurfSingleton hint, and applying
\* them crosses [0,2) and [6,7) and fills nothing: xx..#.x.
UnreachableScenarioResult ==
    UnreachableScenario =>
        /\ RangeStarts(<<2>>, PreLine("Horz", 0)) = <<0>>
        /\ RangeEnds(<<2>>, PreLine("Horz", 0)) = <<6>>
        /\ LineHints = <<[kind |-> "Unreachable", reachable_start |-> 0,
                          reachable_end |-> 6],
                         [kind |-> "TurfSingleton", turf_start |-> 0,
                          reachable_start |-> 2, reachable_end |-> 6,
                          turf_end |-> 6]>>
        /\ filled = {4}
        /\ crossed = {0, 1, 6}

\* the scenario has been run
UnreachableScenarioWitness ==
    /\ UnreachableScenario
    /\ hints # <<>>
    /\ crossed # {}

\* ------------------------------------------------------------------ C24
\* the scenario: a line of 7 cells with clue [1,2], cell 1 filled and cell
\* 2 crossed, on which DiscreteRange has just been run and applied
SandwichScenario ==
    /\ last_pass = "DiscreteRange"
    /\ status = "ok"
    /\ width = 7
    /\ ClueAt("Horz", 0) = <<1, 2>>
    /\ pre_filled = {1}
    /\ pre_crossed = {2}

\* the placements solve enumerates in the scenario: run 0 on cell 1 only,
\* run 1 on [3,4], [4,5] or [5,6]
SandwichPlacements ==
    Solve(PreLine("Horz", 0), <<1, 2>>, 1, 0, <<>>) = <<(<<1, 3>>), <<1, 4>>, <<1, 5>>>>

\* C24 as stated: in the scenario run 0 is enumerated at [1] only and run 1
\* at [3,4], [4,5] or [5,6], and FilledRun{0, 2, {0}} is emitted.
SandwichEmitsFilledRun ==
    SandwichScenario =>
        /\ SandwichPlacements
        /\ \E k \in 1..Len(LineHints) :
              LineHints[k] = [kind |-> "FilledRun", start |-> 0, end |-> 2,
                              numbers |-> {0}]

\* C24, amended: in the scenario run 0 is enumerated at [1] only and run 1
\* at [3,4], [4,5] or [5,6], and the only hint emitted is CrossedRun{0, 1},
\* which crosses cell 0.
SandwichEmitsCrossedRun ==
    SandwichScenario =>
        /\ SandwichPlacements
        /\ LineHints = <<[kind |-> "CrossedRun", start |-> 0, end |-> 1]>>
        /\ filled = {1}
        /\ crossed = {0, 2}

\* the scenario has been run
SandwichWitness ==
    /\ SandwichScenario
    /\ hints # <<>>
    /\ crossed # pre_crossed

\* ------------------------------------------------------------------ C25
\* the grid the first n hints of the list make of the grid the step
\* started with
AfterHints(n) ==
    ApplyAll(SubSeq(hints, 1, n), 1, width, height,
             [filled |-> pre_filled, crossed |-> pre_crossed, panic |-> FALSE])

\* the hints the pass gives on the lines of the axis as they were when the
\* step started, by ascending line and in the order of the pass
HintsOfStart ==
    RunPuzzle(last_pass, last_axis, width, height, horz_clues, vert_clues,
              pre_filled, pre_crossed).hints

\* C25: within one pass step no cell changes while the hints are generated,
\* the list that is then applied is the hints of all the lines of the axis
\* on the grid as the step found it, by ascending line index, and the
\* hints are applied one after the other in list order.
CollectThenApply ==
    /\ pc.phase = "run" =>
          /\ filled = pre_filled
          /\ crossed = pre_crossed
          /\ \A k \in 1..Len(hints) : hints[k].line < pc.line
    /\ (pc.phase = "apply" /\ status = "ok") =>
          /\ hints = HintsOfStart
          /\ \A a, b \in 1..Len(hints) : a < b => hints[a].line <= hints[b].line
          /\ filled = AfterHints(pc.k - 1).filled
          /\ crossed = AfterHints(pc.k - 1).crossed
    /\ (pc = Idle /\ last_pass # "none" /\ status = "ok") =>
          /\ hints = HintsOfStart
          /\ filled = AfterHints(Len(hints)).filled
          /\ crossed = AfterHints(Len(hints)).crossed

\* a step that found cells set is half way through applying the hints of
\* two lines
CollectThenApplyWitness ==
    /\ pc.phase = "apply"
    /\ status = "ok"
    /\ pre_filled # {}
    /\ pc.k > 1
    /\ pc.k <= Len(hints)
    /\ hints[1].line # hints[Len(hints)].line
    /\ filled # pre_filled

\* ------------------------------------------------------------------ C26
RECURSIVE BumpStartsFrom(_, _, _, _)
\* start := bump_start(start, c_i); record start; start += c_i + 1, for
\* the runs from i on; <<-1>> stands for a panic of bump_start
BumpStartsFrom(clue, l, i, start) ==
    IF i > Len(clue) THEN <<>>
    ELSE IF BumpStartPanics(l, start) THEN <<-1>>
    ELSE LET s == BumpStart(l, start, clue[i])
         IN <<s>> \o BumpStartsFrom(clue, l, i + 1, s + clue[i] + 1)

\* C26: on a line on which the clue has a legal placement, the vector
\* range_starts computes for ContinuousRange is the one the iteration of
\* bump_start from 0 over the runs records.
RangeStartsIsBumpIteration ==
    (last_pass = "ContinuousRange" /\ NoImpossible(PreLine("Horz", 0))
       /\ LegalPlacements(ClueAt("Horz", 0), PreLine("Horz", 0)) # {}) =>
        RangeStarts(ClueAt("Horz", 0), PreLine("Horz", 0))
            = BumpStartsFrom(ClueAt("Horz", 0), PreLine("Horz", 0), 1, 0)

\* a clue of two runs on a line with a crossed and a filled cell, where
\* the first run does not start at cell 0
RangeStartsIsBumpIterationWitness ==
    /\ ContinuousRan
    /\ NoImpossible(PreLine("Horz", 0))
    /\ LegalPlacements(ClueAt("Horz", 0), PreLine("Horz", 0)) # {}
    /\ Len(ClueAt("Horz", 0)) = 2
    /\ pre_crossed # {}
    /\ pre_filled # {}
    /\ RangeStarts(ClueAt("Horz", 0), PreLine("Horz", 0))[1] > 0

\* ------------------------------------------------------------------ C27
\* the line read from its other end
Reversal(l) ==
    [len |-> l.len, panic |-> l.panic,
     filled |-> {l.len - 1 - i : i \in l.filled},
     crossed |-> {l.len - 1 - i : i \in l.crossed}]

\* C27: for a line of N cells, last < N and n <= N, bump_last(last, n) is
\* N - bump_start(N-1-last, n) on the reversal of the line.
BumpLastMirrorsBumpStart ==
    (Len(bump) = 4 /\ bump[2] <= width) =>
        LET l == CurLine("Horz", 0)
        IN bump[3] = l.len - BumpStart(Reversal(l), l.len - 1 - bump[1], bump[2])

\* ------------------------------------------------------------------ C28
\* DiscreteRange has just been run and applied on a line with the empty
\* clue and no filled cell
EmptyClueCase ==
    /\ last_pass = "DiscreteRange"
    /\ ClueAt("Horz", 0) = <<>>
    /\ PreLine("Horz", 0).filled = {}

\* C28: on a line of N cells with the empty clue and no filled cell,
\* DiscreteRange emits CrossedRun{0, N} and nothing else when some cell is
\* not crossed, and nothing when all are; afterwards every cell of the
\* line is crossed.
EmptyClueCrossesLine ==
    EmptyClueCase =>
        /\ status = "ok"
        /\ LineHints =
              IF PreLine("Horz", 0).crossed = 0..(width - 1) THEN <<>>
              ELSE <<[kind |-> "CrossedRun", start |-> 0, end |-> width]>>
        /\ CurLine("Horz", 0).crossed = 0..(width - 1)
        /\ CurLine("Horz", 0).filled = {}

\* a line of several cells, one of them crossed already, is crossed out
EmptyClueCrossesLineWitness ==
    /\ EmptyClueCase
    /\ width >= 3
    /\ pre_crossed # {}
    /\ hints # <<>>
    /\ crossed = 0..(width - 1)

\* ------------------------------------------------------------------ C29
\* DiscreteRange has just been run and applied on a line on which the
\* clue had a legal placement
DiscreteRanOnLegal ==
    /\ last_pass = "DiscreteRange"
    /\ status = "ok"
    /\ LegalPlacements(ClueAt("Horz", 0), PreLine("Horz", 0)) # {}

\* C29: when the clue has a legal placement on the line, applying the
\* hints of one DiscreteRange run leaves the set of legal placements as it
\* was, and a second DiscreteRange run on the line returns no hints.
DiscreteFixpointInOne ==
    DiscreteRanOnLegal =>
        /\ LegalPlacements(ClueAt("Horz", 0), CurLine("Horz", 0))
              = LegalPlacements(ClueAt("Horz", 0), PreLine("Horz", 0))
        /\ DiscreteRangeRun(ClueAt("Horz", 0), CurLine("Horz", 0)).hints = <<>>

\* the run filled and crossed cells of a line with a clue of two runs
\* that has more than one legal placement
DiscreteFixpointInOneWitness ==
    /\ DiscreteRanOnLegal
    /\ Len(ClueAt("Horz", 0)) = 2
    /\ Cardinality(LegalPlacements(ClueAt("Horz", 0), PreLine("Horz", 0))) > 1
    /\ filled # pre_filled
    /\ crossed # pre_crossed

\* ------------------------------------------------------------------ C30
\* C30: in the driver's grid, for x < H and y < W the index of (x, y) in
\* transposed addressing is that of (y, x) in direct addressing, x*W + y,
\* so a cell written through the transposed view is the one read through
\* the direct view.
TransposedNamesSameCell ==
    (call # <<>> /\ call.transposed /\ call.x < height /\ call.y < width) =>
        /\ status = "ok"
        /\ call.index = DriverIndex(width, height, call.y, call.x, FALSE)
        /\ call.index = call.x * width + call.y
        /\ DriverIndex(width, height, call.y, call.x, FALSE) \in filled \cup crossed

====
